---------------------------- MODULE Spec2Model ----------------------------
(***************************************************************************)
(* A model of lib/mcp/server.py: the fintech-compliance MCP server.        *)
(*                                                                         *)
(* The process imports the module (configuration is read, the missing-key  *)
(* warning may be printed), runs the __main__ block, and then serves tool  *)
(* invocations.  A tool invocation either takes its payload from the mock  *)
(* data written in the tool (development mode) or awaits make_api_request, *)
(* and then renders the payload into a text report.                        *)
(*                                                                         *)
(* JSON values are tagged records, Python dicts keep their insertion order *)
(* (a sequence of <<key, value>> pairs), and a report is the sequence of   *)
(* the pieces the code appends to `result`; Text joins them into the       *)
(* string the tool returns.                                                *)
(***************************************************************************)
EXTENDS Integers, Sequences, FiniteSets, TLC

\* ------------------------------------------------------------------------
\* Bounds of the model

\* how many tool invocations may be in flight at once
MaxInv == 2

\* how many times the capability listing is asked for
MaxList == 2

\* how many keys are removed at once from a full payload to build the
\* payloads with absent fields
MaxDrop == 2

\* ------------------------------------------------------------------------
\* JSON values as Python holds them after response.json()

JNull == [k |-> "null"]

JBool(b) == [k |-> "bool", v |-> b]

JNum(n) == [k |-> "num", v |-> n]

JStr(s) == [k |-> "str", v |-> s]

JArr(items) == [k |-> "arr", v |-> items]

\* pairs is a sequence of <<key, value>>, in insertion order, keys distinct
JObj(pairs) == [k |-> "obj", v |-> pairs]

Keys(d) == {d.v[i][1] : i \in 1..Len(d.v)}

Lookup(d, key) == d.v[CHOOSE i \in 1..Len(d.v) : d.v[i][1] = key][2]

\* ------------------------------------------------------------------------
\* Outcome of evaluating Python code: a value, or the exception raised

Val(x) == [exc |-> "", val |-> x]

Raise(e) == [exc |-> e, val |-> <<>>]

Raised(r) == r.exc # ""

\* bool(x)
PyTruthy(x) ==
  CASE x.k = "null" -> FALSE
    [] x.k = "bool" -> x.v
    [] x.k = "num" -> x.v # 0
    [] x.k = "str" -> x.v # ""
    [] x.k = "arr" -> Len(x.v) > 0
    [] x.k = "obj" -> Len(x.v) > 0

IsSubstring(key, s) ==
  \E i \in 1..(Len(s) - Len(key) + 1) : SubSeq(s, i, i + Len(key) - 1) = key

\* key in x, for a str key
PyIn(key, x) ==
  CASE x.k = "obj" -> Val(key \in Keys(x))
    [] x.k = "arr" -> Val(\E i \in 1..Len(x.v) : x.v[i] = JStr(key))
    [] x.k = "str" -> Val(IsSubstring(key, x.v))
    [] OTHER -> Raise("TypeError")

\* x[key], for a str key
PyGetItem(x, key) ==
  CASE x.k = "obj" -> IF key \in Keys(x) THEN Val(Lookup(x, key)) ELSE Raise("KeyError")
    [] OTHER -> Raise("TypeError")

\* x.get(key, default)
PyGet(x, key, default) ==
  CASE x.k = "obj" -> IF key \in Keys(x) THEN Val(Lookup(x, key)) ELSE Val(default)
    [] OTHER -> Raise("AttributeError")

\* the values a for loop over x visits
PyIter(x) ==
  CASE x.k = "arr" -> Val(x.v)
    [] x.k = "obj" -> Val([i \in 1..Len(x.v) |-> JStr(x.v[i][1])])
    [] x.k = "str" -> Val([i \in 1..Len(x.v) |-> JStr(SubSeq(x.v, i, i))])
    [] OTHER -> Raise("TypeError")

RECURSIVE PyRepr(_)
RECURSIVE ReprItems(_)
RECURSIVE ReprPairs(_)

ReprItems(items) ==
  IF Len(items) = 0 THEN ""
  ELSE PyRepr(Head(items)) \o (IF Len(items) > 1 THEN ", " ELSE "") \o ReprItems(Tail(items))

ReprPairs(pairs) ==
  IF Len(pairs) = 0 THEN ""
  ELSE "'" \o Head(pairs)[1] \o "': " \o PyRepr(Head(pairs)[2])
       \o (IF Len(pairs) > 1 THEN ", " ELSE "") \o ReprPairs(Tail(pairs))

\* repr(x)
PyRepr(x) ==
  CASE x.k = "null" -> "None"
    [] x.k = "bool" -> IF x.v THEN "True" ELSE "False"
    [] x.k = "num" -> ToString(x.v)
    [] x.k = "str" -> "'" \o x.v \o "'"
    [] x.k = "arr" -> "[" \o ReprItems(x.v) \o "]"
    [] x.k = "obj" -> "{" \o ReprPairs(x.v) \o "}"

\* str(x), what an f-string puts for {x}
PyStr(x) == IF x.k = "str" THEN x.v ELSE PyRepr(x)

\* ------------------------------------------------------------------------
\* Building `result`: the pieces appended so far, or the exception raised

Out(pieces) == [exc |-> "", out |-> pieces]

Fail(e) == [exc |-> e, out |-> <<>>]

\* statement a, then statement b
Then(a, b) ==
  IF a.exc # "" THEN a
  ELSE IF b.exc # "" THEN b
  ELSE Out(a.out \o b.out)

RECURSIVE Flat(_)
\* the statements of rs one after the other
Flat(rs) == IF Len(rs) = 0 THEN Out(<<>>) ELSE Then(Head(rs), Flat(Tail(rs)))

RECURSIVE Text(_)
\* the string `result` holds
Text(pieces) == IF Len(pieces) = 0 THEN "" ELSE Head(pieces) \o Text(Tail(pieces))

\* if key in data: result += prefix + str(data[key]) + suffix
IfKeyLine(data, key, prefix, suffix) ==
  LET c == PyIn(key, data) IN
  IF Raised(c) THEN Fail(c.exc)
  ELSE IF ~c.val THEN Out(<<>>)
  ELSE LET g == PyGetItem(data, key) IN
       IF Raised(g) THEN Fail(g.exc) ELSE Out(<<prefix \o PyStr(g.val) \o suffix>>)

\* result += prefix + str(x.get(key, default)) + suffix
GetLine(x, key, default, prefix, suffix) ==
  LET g == PyGet(x, key, default) IN
  IF Raised(g) THEN Fail(g.exc) ELSE Out(<<prefix \o PyStr(g.val) \o suffix>>)

\* result += prefix + str(x[key]) + suffix
ItemLine(x, key, prefix, suffix) ==
  LET g == PyGetItem(x, key) IN
  IF Raised(g) THEN Fail(g.exc) ELSE Out(<<prefix \o PyStr(g.val) \o suffix>>)

\* key in data and data[key]: the outcome of the condition
KeyAndTruthy(data, key) ==
  LET c == PyIn(key, data) IN
  IF Raised(c) THEN c
  ELSE IF ~c.val THEN Val(FALSE)
  ELSE LET g == PyGetItem(data, key) IN
       IF Raised(g) THEN g ELSE Val(PyTruthy(g.val))

\* if key in data and data[key]: result += heading; for x in data[key]: result += "- " + str(x) + "\n"
BulletList(data, key, heading, bullet) ==
  LET c == KeyAndTruthy(data, key) IN
  IF Raised(c) THEN Fail(c.exc)
  ELSE IF ~c.val THEN Out(<<>>)
  ELSE LET it == PyIter(PyGetItem(data, key).val) IN
       IF Raised(it) THEN Fail(it.exc)
       ELSE Out(heading \o [i \in 1..Len(it.val) |-> bullet \o PyStr(it.val[i]) \o "\n"])


\* ------------------------------------------------------------------------
\* Text conversions the renderers use

LowerCase == "abcdefghijklmnopqrstuvwxyz"

UpperCase == "ABCDEFGHIJKLMNOPQRSTUVWXYZ"

CharUpper(c) ==
  IF \E i \in 1..26 : SubSeq(LowerCase, i, i) = c
  THEN LET i == CHOOSE j \in 1..26 : SubSeq(LowerCase, j, j) = c IN SubSeq(UpperCase, i, i)
  ELSE c

CharLower(c) ==
  IF \E i \in 1..26 : SubSeq(UpperCase, i, i) = c
  THEN LET i == CHOOSE j \in 1..26 : SubSeq(UpperCase, j, j) = c IN SubSeq(LowerCase, i, i)
  ELSE c

RECURSIVE StrLower(_)
StrLower(s) ==
  IF Len(s) = 0 THEN "" ELSE CharLower(SubSeq(s, 1, 1)) \o StrLower(SubSeq(s, 2, Len(s)))

\* str.capitalize(): the first character upper-cased, all the others lower-cased
capitalize(s) ==
  IF Len(s) = 0 THEN "" ELSE CharUpper(SubSeq(s, 1, 1)) \o StrLower(SubSeq(s, 2, Len(s)))

\* a number in at least `width` digits, zero-padded
RECURSIVE Pad(_, _)
Pad(n, width) ==
  LET t == ToString(n) IN IF Len(t) >= width THEN t ELSE "0" \o Pad(n, width - 1)

\* datetime.strftime('%Y-%m-%d %H:%M:%S')
strftime(t) ==
  Pad(t.year, 4) \o "-" \o Pad(t.month, 2) \o "-" \o Pad(t.day, 2) \o " "
  \o Pad(t.hour, 2) \o ":" \o Pad(t.minute, 2) \o ":" \o Pad(t.second, 2)

\* ------------------------------------------------------------------------
\* analyze_transaction, from the payload on

\* one pass of the loop over data["issues"]
tx_issue(issue) ==
  LET c == PyGetItem(issue, "category")
      d == PyGetItem(issue, "description") IN
  IF Raised(c) THEN Fail(c.exc)
  ELSE IF Raised(d) THEN Fail(d.exc)
  ELSE Then(Out(<<"- **" \o PyStr(c.val) \o "**: " \o PyStr(d.val) \o "\n">>),
            IfKeyLine(issue, "recommendation", "  - Recommendation: ", "\n"))

tx_issues(data) ==
  LET c == KeyAndTruthy(data, "issues") IN
  IF Raised(c) THEN Fail(c.exc)
  ELSE IF c.val
  THEN LET it == PyIter(PyGetItem(data, "issues").val) IN
       IF Raised(it) THEN Fail(it.exc)
       ELSE Then(Out(<<"\n### Identified Issues\n\n">>),
                 Flat([i \in 1..Len(it.val) |-> tx_issue(it.val[i])]))
  ELSE Out(<<"\n### No compliance issues detected\n">>)

\* one pass of the loop over data["regulatory_references"]
tx_reference(ref) ==
  LET c == PyGetItem(ref, "code")
      d == PyGetItem(ref, "description") IN
  IF Raised(c) THEN Fail(c.exc)
  ELSE IF Raised(d) THEN Fail(d.exc)
  ELSE Out(<<"- " \o PyStr(c.val) \o ": " \o PyStr(d.val) \o "\n">>)

tx_references(data) ==
  LET c == KeyAndTruthy(data, "regulatory_references") IN
  IF Raised(c) THEN Fail(c.exc)
  ELSE IF c.val
  THEN LET it == PyIter(PyGetItem(data, "regulatory_references").val) IN
       IF Raised(it) THEN Fail(it.exc)
       ELSE Then(Out(<<"\n### Regulatory References\n\n">>),
                 Flat([i \in 1..Len(it.val) |-> tx_reference(it.val[i])]))
  ELSE Out(<<>>)

analyze_transaction(transaction_id, data, now) ==
  LET e == PyIn("error", data) IN
  IF Raised(e) THEN Fail(e.exc)
  ELSE IF e.val THEN ItemLine(data, "error", "Error analyzing transaction: ", "")
  ELSE Flat(<<
    Out(<<"## Transaction Compliance Analysis\n\n">>),
    Out(<<"**Transaction ID**: " \o transaction_id \o "\n">>),
    Out(<<"**Analysis Time**: " \o strftime(now) \o "\n\n">>),
    IfKeyLine(data, "compliance_status", "**Compliance Status**: ", "\n"),
    IfKeyLine(data, "risk_score", "**Risk Score**: ", "/100\n"),
    tx_issues(data),
    tx_references(data) >>)

\* ------------------------------------------------------------------------
\* verify_customer_kyc, from the payload on

kyc_identity(data) ==
  LET c == PyIn("identity_verification", data) IN
  IF Raised(c) THEN Fail(c.exc)
  ELSE IF ~c.val THEN Out(<<>>)
  ELSE LET g == PyGetItem(data, "identity_verification") IN
       IF Raised(g) THEN Fail(g.exc)
       ELSE Flat(<<
         Out(<<"\n### Identity Verification\n\n">>),
         GetLine(g.val, "status", JStr("Unknown"), "- **Status**: ", "\n"),
         GetLine(g.val, "method", JStr("Unknown"), "- **Method**: ", "\n"),
         BulletList(g.val, "issues", <<"- **Issues**:\n">>, "  - ") >>)

\* one pass of the loop over aml["matches"]
kyc_match(match) ==
  LET a == PyGet(match, "list_name", JNull)
      b == PyGet(match, "match_details", JNull) IN
  IF Raised(a) THEN Fail(a.exc)
  ELSE IF Raised(b) THEN Fail(b.exc)
  ELSE Out(<<"  - " \o PyStr(a.val) \o ": " \o PyStr(b.val) \o "\n">>)

kyc_matches(aml) ==
  LET c == KeyAndTruthy(aml, "matches") IN
  IF Raised(c) THEN Fail(c.exc)
  ELSE IF ~c.val THEN Out(<<>>)
  ELSE LET it == PyIter(PyGetItem(aml, "matches").val) IN
       IF Raised(it) THEN Fail(it.exc)
       ELSE Then(Out(<<"- **Watchlist Matches**:\n">>),
                 Flat([i \in 1..Len(it.val) |-> kyc_match(it.val[i])]))

kyc_aml(data) ==
  LET c == PyIn("aml_screening", data) IN
  IF Raised(c) THEN Fail(c.exc)
  ELSE IF ~c.val THEN Out(<<>>)
  ELSE LET g == PyGetItem(data, "aml_screening") IN
       IF Raised(g) THEN Fail(g.exc)
       ELSE Flat(<<
         Out(<<"\n### AML Screening\n\n">>),
         GetLine(g.val, "status", JStr("Unknown"), "- **Status**: ", "\n"),
         GetLine(g.val, "risk_level", JStr("Unknown"), "- **Risk Level**: ", "\n"),
         kyc_matches(g.val) >>)

\* verify_customer_kyc as it would be if the error text carried the details
verify_customer_kyc_details(customer_id, data, now) ==
  LET e == PyIn("error", data) IN
  IF Raised(e) THEN Fail(e.exc)
  ELSE IF e.val
  THEN Then(ItemLine(data, "error", "Error verifying customer KYC: ", ""),
            IfKeyLine(data, "details", " (", ")"))
  ELSE Out(<<"## Customer KYC Verification\n\n">>)

verify_customer_kyc(customer_id, data, now) ==
  LET e == PyIn("error", data) IN
  IF Raised(e) THEN Fail(e.exc)
  ELSE IF e.val THEN ItemLine(data, "error", "Error verifying customer KYC: ", "")
  ELSE Flat(<<
    Out(<<"## Customer KYC Verification\n\n">>),
    Out(<<"**Customer ID**: " \o customer_id \o "\n">>),
    Out(<<"**Verification Time**: " \o strftime(now) \o "\n\n">>),
    IfKeyLine(data, "verification_status", "**Verification Status**: ", "\n"),
    IfKeyLine(data, "verification_date", "**Last Verified**: ", "\n"),
    kyc_identity(data),
    kyc_aml(data),
    BulletList(data, "required_actions", <<"\n### Required Actions\n\n">>, "- ") >>)

\* ------------------------------------------------------------------------
\* analyze_communication, from the payload on

comm_sentiment(data) ==
  LET c == PyIn("sentiment_analysis", data) IN
  IF Raised(c) THEN Fail(c.exc)
  ELSE IF ~c.val THEN Out(<<>>)
  ELSE LET g == PyGetItem(data, "sentiment_analysis") IN
       IF Raised(g) THEN Fail(g.exc)
       ELSE GetLine(g.val, "overall", JStr("Unknown"), "**Sentiment**: ", "\n")

\* one pass of the loop over data["issues"]
comm_issue(issue) ==
  LET c == PyGetItem(issue, "category")
      d == PyGetItem(issue, "description") IN
  IF Raised(c) THEN Fail(c.exc)
  ELSE IF Raised(d) THEN Fail(d.exc)
  ELSE Flat(<<
    Out(<<"- **" \o PyStr(c.val) \o "**: " \o PyStr(d.val) \o "\n">>),
    IfKeyLine(issue, "severity", "  - Severity: ", "\n"),
    IfKeyLine(issue, "context", "  - Context: \"", "\"\n") >>)

comm_issues(data) ==
  LET c == KeyAndTruthy(data, "issues") IN
  IF Raised(c) THEN Fail(c.exc)
  ELSE IF c.val
  THEN LET it == PyIter(PyGetItem(data, "issues").val) IN
       IF Raised(it) THEN Fail(it.exc)
       ELSE Then(Out(<<"\n### Identified Issues\n\n">>),
                 Flat([i \in 1..Len(it.val) |-> comm_issue(it.val[i])]))
  ELSE Out(<<"\n### No compliance issues detected\n">>)

analyze_communication(communication_id, data, now) ==
  LET e == PyIn("error", data) IN
  IF Raised(e) THEN Fail(e.exc)
  ELSE IF e.val THEN ItemLine(data, "error", "Error analyzing communication: ", "")
  ELSE Flat(<<
    Out(<<"## Communication Compliance Analysis\n\n">>),
    Out(<<"**Communication ID**: " \o communication_id \o "\n">>),
    Out(<<"**Analysis Time**: " \o strftime(now) \o "\n\n">>),
    IfKeyLine(data, "communication_type", "**Type**: ", "\n"),
    IfKeyLine(data, "compliance_status", "**Compliance Status**: ", "\n"),
    comm_sentiment(data),
    comm_issues(data),
    BulletList(data, "recommendations", <<"\n### Recommendations\n\n">>, "- ") >>)

\* ------------------------------------------------------------------------
\* get_regulatory_updates, from the payload on

\* one pass of the loop over data["updates"]
reg_update(update) ==
  Flat(<<
    GetLine(update, "title", JStr("Untitled Update"), "### ", "\n\n"),
    GetLine(update, "date", JStr("Unknown"), "**Date**: ", "\n"),
    GetLine(update, "jurisdiction", JStr("Global"), "**Jurisdiction**: ", "\n"),
    GetLine(update, "category", JStr("General"), "**Category**: ", "\n\n"),
    GetLine(update, "summary", JStr("No summary available"), "", "\n\n"),
    BulletList(update, "action_items", <<"**Required Actions**:\n">>, "- "),
    Out(<<"\n---\n\n">>) >>)

reg_updates(data) ==
  LET c == KeyAndTruthy(data, "updates") IN
  IF Raised(c) THEN Fail(c.exc)
  ELSE IF c.val
  THEN LET it == PyIter(PyGetItem(data, "updates").val) IN
       IF Raised(it) THEN Fail(it.exc)
       ELSE Flat([i \in 1..Len(it.val) |-> reg_update(it.val[i])])
  ELSE Out(<<"No recent regulatory updates available.\n">>)

get_regulatory_updates(data, now) ==
  LET e == PyIn("error", data) IN
  IF Raised(e) THEN Fail(e.exc)
  ELSE IF e.val THEN ItemLine(data, "error", "Error fetching regulatory updates: ", "")
  ELSE Then(Out(<<"## Recent Regulatory Updates\n\n">>), reg_updates(data))

\* ------------------------------------------------------------------------
\* generate_compliance_report, from the payload on

\* one pass of the loops over risk["factors"] and status["categories"]:
\* "- **" + str(x[k1]) + "**: " + str(x[k2]) + "\n", then the details if any
report_item(x, k1, k2) ==
  LET a == PyGetItem(x, k1)
      b == PyGetItem(x, k2) IN
  IF Raised(a) THEN Fail(a.exc)
  ELSE IF Raised(b) THEN Fail(b.exc)
  ELSE Then(Out(<<"- **" \o PyStr(a.val) \o "**: " \o PyStr(b.val) \o "\n">>),
            IfKeyLine(x, "details", "  - ", "\n"))

report_factors(risk) ==
  LET c == KeyAndTruthy(risk, "factors") IN
  IF Raised(c) THEN Fail(c.exc)
  ELSE IF ~c.val THEN Out(<<>>)
  ELSE LET it == PyIter(PyGetItem(risk, "factors").val) IN
       IF Raised(it) THEN Fail(it.exc)
       ELSE Then(Out(<<"\n**Risk Factors**:\n">>),
                 Flat([i \in 1..Len(it.val) |-> report_item(it.val[i], "name", "level")]))

report_risk(data) ==
  LET c == PyIn("risk_assessment", data) IN
  IF Raised(c) THEN Fail(c.exc)
  ELSE IF ~c.val THEN Out(<<>>)
  ELSE LET g == PyGetItem(data, "risk_assessment") IN
       IF Raised(g) THEN Fail(g.exc)
       ELSE Flat(<<
         Out(<<"### Risk Assessment\n\n">>),
         GetLine(g.val, "overall", JStr("Unknown"), "**Overall Risk**: ", "\n"),
         report_factors(g.val) >>)

report_categories(status) ==
  LET c == KeyAndTruthy(status, "categories") IN
  IF Raised(c) THEN Fail(c.exc)
  ELSE IF ~c.val THEN Out(<<>>)
  ELSE LET it == PyIter(PyGetItem(status, "categories").val) IN
       IF Raised(it) THEN Fail(it.exc)
       ELSE Flat([i \in 1..Len(it.val) |-> report_item(it.val[i], "name", "status")])

report_status(data) ==
  LET c == PyIn("compliance_status", data) IN
  IF Raised(c) THEN Fail(c.exc)
  ELSE IF ~c.val THEN Out(<<>>)
  ELSE LET g == PyGetItem(data, "compliance_status") IN
       IF Raised(g) THEN Fail(g.exc)
       ELSE Flat(<<
         Out(<<"\n### Compliance Status\n\n">>),
         GetLine(g.val, "overall", JStr("Unknown"), "**Status**: ", "\n\n"),
         report_categories(g.val) >>)

generate_compliance_report(entity_id, report_type, data, now) ==
  LET e == PyIn("error", data) IN
  IF Raised(e) THEN Fail(e.exc)
  ELSE IF e.val THEN ItemLine(data, "error", "Error generating compliance report: ", "")
  ELSE Flat(<<
    Out(<<"## " \o capitalize(report_type) \o " Compliance Report\n\n">>),
    Out(<<"**Entity ID**: " \o entity_id \o "\n">>),
    Out(<<"**Report Time**: " \o strftime(now) \o "\n">>),
    Out(<<"**Report Type**: " \o capitalize(report_type) \o "\n\n">>),
    IfKeyLine(data, "summary", "### Summary\n\n", "\n\n"),
    report_risk(data),
    report_status(data),
    BulletList(data, "recommendations", <<"\n### Recommendations\n\n">>, "- ") >>)

\* ------------------------------------------------------------------------
\* The mock payloads written in the tools

mock_analyze_transaction ==
  JObj(<<
    <<"compliance_status", JStr("COMPLIANT")>>,
    <<"risk_score", JNum(25)>>,
    <<"issues", JArr(<<
      JObj(<<
        <<"category", JStr("Documentation")>>,
        <<"description", JStr("Missing secondary verification for high-value transaction")>>,
        <<"recommendation", JStr("Request additional documentation from the customer")>> >>) >>)>>,
    <<"regulatory_references", JArr(<<
      JObj(<<
        <<"code", JStr("REG-123")>>,
        <<"description", JStr("High-value transaction verification requirements")>> >>) >>)>> >>)

mock_verify_customer_kyc ==
  JObj(<<
    <<"verification_status", JStr("VERIFIED")>>,
    <<"verification_date", JStr("2025-03-15")>>,
    <<"identity_verification", JObj(<<
      <<"status", JStr("VERIFIED")>>,
      <<"method", JStr("Document Verification + Biometric")>>,
      <<"issues", JArr(<<>>)>> >>)>>,
    <<"aml_screening", JObj(<<
      <<"status", JStr("CLEARED")>>,
      <<"risk_level", JStr("LOW")>>,
      <<"matches", JArr(<<>>)>> >>)>>,
    <<"required_actions", JArr(<<>>)>> >>)

mock_analyze_communication ==
  JObj(<<
    <<"communication_type", JStr("Email")>>,
    <<"compliance_status", JStr("REVIEW_REQUIRED")>>,
    <<"sentiment_analysis", JObj(<< <<"overall", JStr("Neutral")>> >>)>>,
    <<"issues", JArr(<<
      JObj(<<
        <<"category", JStr("Disclosure")>>,
        <<"description", JStr("Missing required risk disclosure")>>,
        <<"severity", JStr("Medium")>>,
        <<"context", JStr("We recommend investing in our new high-yield fund...")>> >>) >>)>>,
    <<"recommendations", JArr(<<
      JStr("Add standard risk disclosure statement"),
      JStr("Include performance disclaimer") >>)>> >>)

mock_get_regulatory_updates ==
  JObj(<<
    <<"updates", JArr(<<
      JObj(<<
        <<"title", JStr("New AML Reporting Requirements")>>,
        <<"date", JStr("2025-03-01")>>,
        <<"jurisdiction", JStr("United States")>>,
        <<"category", JStr("Anti-Money Laundering")>>,
        <<"summary", JStr("The Financial Crimes Enforcement Network (FinCEN) has issued new guidelines for reporting suspicious transactions related to cryptocurrency exchanges.")>>,
        <<"action_items", JArr(<<
          JStr("Update AML monitoring systems"),
          JStr("Train compliance staff on new requirements"),
          JStr("Implement enhanced due diligence for crypto transactions") >>)>> >>),
      JObj(<<
        <<"title", JStr("ESG Disclosure Framework")>>,
        <<"date", JStr("2025-02-15")>>,
        <<"jurisdiction", JStr("European Union")>>,
        <<"category", JStr("ESG Compliance")>>,
        <<"summary", JStr("The European Securities and Markets Authority (ESMA) has finalized the new ESG disclosure framework for financial products.")>>,
        <<"action_items", JArr(<<
          JStr("Assess current ESG reporting capabilities"),
          JStr("Implement new disclosure templates"),
          JStr("Review investment products for compliance") >>)>> >>) >>)>> >>)

mock_generate_compliance_report ==
  JObj(<<
    <<"summary", JStr("This entity is generally compliant with current regulations, with minor issues requiring attention.")>>,
    <<"risk_assessment", JObj(<<
      <<"overall", JStr("Medium-Low")>>,
      <<"factors", JArr(<<
        JObj(<<
          <<"name", JStr("Transaction Volume")>>,
          <<"level", JStr("Medium")>>,
          <<"details", JStr("Higher than average transaction volume for this customer segment")>> >>),
        JObj(<<
          <<"name", JStr("Geographic Risk")>>,
          <<"level", JStr("Low")>>,
          <<"details", JStr("Operations primarily in low-risk jurisdictions")>> >>),
        JObj(<<
          <<"name", JStr("Customer Due Diligence")>>,
          <<"level", JStr("Low")>>,
          <<"details", JStr("All required documentation is complete and verified")>> >>) >>)>> >>)>>,
    <<"compliance_status", JObj(<<
      <<"overall", JStr("Compliant with Exceptions")>>,
      <<"categories", JArr(<<
        JObj(<<
          <<"name", JStr("KYC/AML")>>,
          <<"status", JStr("Compliant")>>,
          <<"details", JStr("All KYC requirements met")>> >>),
        JObj(<<
          <<"name", JStr("Regulatory Reporting")>>,
          <<"status", JStr("Compliant with Exceptions")>>,
          <<"details", JStr("One late filing in the past quarter")>> >>),
        JObj(<<
          <<"name", JStr("Transaction Monitoring")>>,
          <<"status", JStr("Compliant")>>,
          <<"details", JStr("No suspicious activity detected")>> >>) >>)>> >>)>>,
    <<"recommendations", JArr(<<
      JStr("Review and update customer risk profile"),
      JStr("Implement additional monitoring for high-volume transactions"),
      JStr("Schedule quarterly compliance review") >>)>> >>)

\* ------------------------------------------------------------------------
\* State

VARIABLES
  phase,       \* "start", then "main" once the module is imported, then "serving"
  os_environ,  \* the process environment: name |-> <<>> (unset) or <<value>>
  argv_dev,    \* whether --dev is on the command line
  API_BASE,    \* module global, bound at import
  API_KEY,     \* module global, bound at import
  stdout,      \* the lines printed so far
  clock,       \* which of Instants datetime.now() returns
  pc,          \* per invocation: "idle", "awaiting", "fetched", "returned", "raised", "rejected"
  call,        \* per invocation: the tool name and the arguments of the caller
  log,         \* per invocation: what it did so far, in order
  sent,        \* per invocation: the HTTP requests it issued, in order
  outcome,     \* per invocation: what the HTTP client did with its request
  data,        \* per invocation: the payload the tool holds in `data`
  at,          \* per invocation: the clock when it called datetime.now(), 0 before
  ret,         \* per invocation: what the caller got
  listed       \* the bodies GET /api/tools answered with so far, in order

vars == <<phase, os_environ, argv_dev, API_BASE, API_KEY, stdout, clock,
          pc, call, log, sent, outcome, data, at, ret, listed>>

config == <<os_environ, argv_dev, API_BASE, API_KEY, stdout>>

Invocations == 1..MaxInv

\* the wall-clock times datetime.now() may return, in order
Instants == <<
  [year |-> 2025, month |-> 3, day |-> 9, hour |-> 8, minute |-> 5, second |-> 59],
  [year |-> 2025, month |-> 3, day |-> 9, hour |-> 8, minute |-> 6, second |-> 0],
  [year |-> 2025, month |-> 12, day |-> 31, hour |-> 23, minute |-> 59, second |-> 59] >>

now == Instants[clock]

\* os.environ.get(name, default)
environ_get(name, default) ==
  IF Len(os_environ[name]) = 0 THEN default ELSE os_environ[name][1]

\* os.environ.get("DEVELOPMENT_MODE") taken as a condition: set and not empty
DEVELOPMENT_MODE ==
  Len(os_environ["DEVELOPMENT_MODE"]) > 0 /\ os_environ["DEVELOPMENT_MODE"][1] # ""

NoCall == [name |-> "", arguments |-> <<>>]

NoData == [k |-> "unset"]

NoOutcome == [kind |-> "none"]

NoReturn == [kind |-> "none", out |-> <<>>, exc |-> ""]

\* ------------------------------------------------------------------------
\* make_api_request

\* the request timeout, in seconds
TIMEOUT == 30

headers ==
  [Authorization |-> "Bearer " \o API_KEY,
   ContentType |-> "application/json",
   Accept |-> "application/json"]

\* api_request as it would be if every method but POST were sent as a GET
api_request_lenient(endpoint, method, params, body) ==
  LET url == API_BASE \o "/" \o endpoint IN
  IF method = "POST"
  THEN [send |-> TRUE,
        request |-> [method |-> "POST", url |-> url, headers |-> headers,
                     params |-> <<>>, json |-> <<body>>, timeout |-> TIMEOUT]]
  ELSE [send |-> TRUE,
        request |-> [method |-> "GET", url |-> url, headers |-> headers,
                     params |-> <<params>>, json |-> <<>>, timeout |-> TIMEOUT]]

\* Up to the await: the HTTP request the client is asked to send, or the dict
\* returned without sending.  A keyword argument that is not passed is <<>>.
api_request(endpoint, method, params, body) ==
  LET url == API_BASE \o "/" \o endpoint IN
  CASE method = "GET" ->
         [send |-> TRUE,
          request |-> [method |-> "GET", url |-> url, headers |-> headers,
                       params |-> <<params>>, json |-> <<>>, timeout |-> TIMEOUT]]
    [] method = "POST" ->
         [send |-> TRUE,
          request |-> [method |-> "POST", url |-> url, headers |-> headers,
                       params |-> <<>>, json |-> <<body>>, timeout |-> TIMEOUT]]
    [] OTHER ->
         [send |-> FALSE,
          result |-> JObj(<< <<"error", JStr("Unsupported method: " \o method)>> >>)]

\* raise_for_status as it would be if only 4xx and 5xx raised
raise_for_status_4xx_5xx(response) == response.status_code >= 400

\* response.raise_for_status() raises HTTPStatusError unless the status is 2xx
raise_for_status(response) == response.status_code \notin 200..299

\* From the await on: the dict make_api_request returns for what the client did.
\* o.kind is "response" (a response came, whatever its status),
\* "RequestError" (httpx.RequestError: transport failure, timeout) or
\* "Exception" (anything else raised by the call).
api_result(o) ==
  CASE o.kind = "response" ->
         IF raise_for_status(o)
         THEN JObj(<< <<"error", JStr("HTTP error: " \o ToString(o.status_code))>>,
                      <<"details", JStr(o.text)>> >>)
         ELSE IF o.json.k = "invalid"
         THEN JObj(<< <<"error", JStr("Unexpected error: " \o o.json.msg)>> >>)
         ELSE o.json
    [] o.kind = "RequestError" ->
         JObj(<< <<"error", JStr("Request error: " \o o.msg)>> >>)
    [] o.kind = "Exception" ->
         JObj(<< <<"error", JStr("Unexpected error: " \o o.msg)>> >>)

\* ------------------------------------------------------------------------
\* The tools

\* the tool functions, in the order they are defined
Tools == <<"analyze_transaction", "verify_customer_kyc", "analyze_communication",
           "get_regulatory_updates", "generate_compliance_report">>

\* Registry as it would be with a tool function registered under a second name
RegistryWithAlias ==
  [i \in 1..(Len(Tools) + 1) |->
     IF i <= Len(Tools) THEN [name |-> Tools[i], fn |-> Tools[i]]
     ELSE [name |-> "delete_everything", fn |-> "analyze_transaction"]]

\* what @mcp.tool() leaves in the tool manager: every function, under its own name
Registry == [i \in 1..Len(Tools) |-> [name |-> Tools[i], fn |-> Tools[i]]]

ToolNames == {Registry[i].name : i \in 1..Len(Registry)}

\* the function registered under a name
Registered(name) == Registry[CHOOSE i \in 1..Len(Registry) : Registry[i].name = name].fn

\* the parameters of each tool function
Signature(name) ==
  CASE name = "analyze_transaction" -> <<"transaction_id">>
    [] name = "verify_customer_kyc" -> <<"customer_id">>
    [] name = "analyze_communication" -> <<"communication_id">>
    [] name = "get_regulatory_updates" -> <<>>
    [] name = "generate_compliance_report" -> <<"entity_id", "report_type">>

\* the mock_data of each tool
mock_data(name) ==
  CASE name = "analyze_transaction" -> mock_analyze_transaction
    [] name = "verify_customer_kyc" -> mock_verify_customer_kyc
    [] name = "analyze_communication" -> mock_analyze_communication
    [] name = "get_regulatory_updates" -> mock_get_regulatory_updates
    [] name = "generate_compliance_report" -> mock_generate_compliance_report

\* upstream_call as it would be if analyze_transaction normalised its identifier
upstream_call_normalised(name, a) ==
  CASE name = "analyze_transaction" ->
         [endpoint |-> "transactions/" \o StrLower(a.transaction_id) \o "/analyze",
          method |-> "GET", params |-> JNull, data |-> JNull]
    [] name = "verify_customer_kyc" ->
         [endpoint |-> "customers/" \o a.customer_id \o "/kyc",
          method |-> "GET", params |-> JNull, data |-> JNull]
    [] name = "analyze_communication" ->
         [endpoint |-> "communications/" \o a.communication_id \o "/analyze",
          method |-> "GET", params |-> JNull, data |-> JNull]
    [] name = "get_regulatory_updates" ->
         [endpoint |-> "regulatory/updates",
          method |-> "GET", params |-> JNull, data |-> JNull]
    [] name = "generate_compliance_report" ->
         [endpoint |-> "reports/generate",
          method |-> "POST", params |-> JNull,
          data |-> JObj(<< <<"entity_id", JStr(a.entity_id)>>,
                           <<"report_type", JStr(a.report_type)>> >>)]

\* the arguments each tool calls make_api_request with; None is JNull
upstream_call(name, a) ==
  CASE name = "analyze_transaction" ->
         [endpoint |-> "transactions/" \o a.transaction_id \o "/analyze",
          method |-> "GET", params |-> JNull, data |-> JNull]
    [] name = "verify_customer_kyc" ->
         [endpoint |-> "customers/" \o a.customer_id \o "/kyc",
          method |-> "GET", params |-> JNull, data |-> JNull]
    [] name = "analyze_communication" ->
         [endpoint |-> "communications/" \o a.communication_id \o "/analyze",
          method |-> "GET", params |-> JNull, data |-> JNull]
    [] name = "get_regulatory_updates" ->
         [endpoint |-> "regulatory/updates",
          method |-> "GET", params |-> JNull, data |-> JNull]
    [] name = "generate_compliance_report" ->
         [endpoint |-> "reports/generate",
          method |-> "POST", params |-> JNull,
          data |-> JObj(<< <<"entity_id", JStr(a.entity_id)>>,
                           <<"report_type", JStr(a.report_type)>> >>)]

\* each tool from `if "error" in data` on
render(name, a, payload, t) ==
  CASE name = "analyze_transaction" -> analyze_transaction(a.transaction_id, payload, t)
    [] name = "verify_customer_kyc" -> verify_customer_kyc(a.customer_id, payload, t)
    [] name = "analyze_communication" -> analyze_communication(a.communication_id, payload, t)
    [] name = "get_regulatory_updates" -> get_regulatory_updates(payload, t)
    [] name = "generate_compliance_report" ->
         generate_compliance_report(a.entity_id, a.report_type, payload, t)

\* what the caller gets from a tool that ran to its end or raised
Returned(r) ==
  IF r.exc # "" THEN [kind |-> "exception", out |-> <<>>, exc |-> r.exc]
  ELSE [kind |-> "report", out |-> r.out, exc |-> ""]

\* ------------------------------------------------------------------------
\* Process start

WARNING == "WARNING: API key not found. Set COMPLIANCE_API_KEY environment variable for production use."

\* the module-level statements: the configuration is read, the warning printed
Import ==
  /\ phase = "start"
  /\ API_BASE' = environ_get("COMPLIANCE_API_BASE", "https://api.compliance-service.com")
  /\ API_KEY' = environ_get("COMPLIANCE_API_KEY", "")
  /\ stdout' = IF API_KEY' = "" /\ ~DEVELOPMENT_MODE THEN Append(stdout, WARNING) ELSE stdout
  /\ phase' = "main"
  /\ UNCHANGED <<os_environ, argv_dev, clock, pc, call, log, sent, outcome, data, at, ret, listed>>

\* the __main__ block, up to the server running
Main ==
  /\ phase = "main"
  /\ IF argv_dev
     THEN /\ os_environ' = [os_environ EXCEPT !["DEVELOPMENT_MODE"] = <<"1">>]
          /\ stdout' = Append(stdout, "Running in development mode with mock data")
     ELSE UNCHANGED <<os_environ, stdout>>
  /\ phase' = "serving"
  /\ UNCHANGED <<argv_dev, API_BASE, API_KEY, clock, pc, call, log, sent, outcome, data, at, ret, listed>>

\* time passes
Tick ==
  /\ phase = "serving"
  /\ clock < Len(Instants)
  /\ clock' = clock + 1
  /\ UNCHANGED <<phase, config, pc, call, log, sent, outcome, data, at, ret, listed>>

\* ------------------------------------------------------------------------
\* Tool invocations

\* A caller names a tool that was not registered: the tool manager finds no
\* function under that name and answers with its own error.
UnknownTool(i, c) ==
  /\ phase = "serving"
  /\ pc[i] = "idle"
  /\ c.name \notin ToolNames
  /\ call' = [call EXCEPT ![i] = c]
  /\ pc' = [pc EXCEPT ![i] = "rejected"]
  /\ ret' = [ret EXCEPT ![i] = [kind |-> "unknown_tool", out |-> <<>>, exc |-> "ToolError"]]
  /\ UNCHANGED <<phase, config, clock, log, sent, outcome, data, at, listed>>

\* A tool called in development mode: it runs from its first line to its
\* return without awaiting anything.
ToolDev(i, c) ==
  /\ phase = "serving"
  /\ pc[i] = "idle"
  /\ c.name \in ToolNames
  /\ DEVELOPMENT_MODE
  /\ call' = [call EXCEPT ![i] = c]
  /\ data' = [data EXCEPT ![i] = mock_data(Registered(c.name))]
  /\ log' = [log EXCEPT ![i] = <<"mock_data", "render">>]
  /\ at' = [at EXCEPT ![i] = clock]
  /\ LET r == Returned(render(Registered(c.name), c.arguments, mock_data(Registered(c.name)), now)) IN
       /\ ret' = [ret EXCEPT ![i] = r]
       /\ pc' = [pc EXCEPT ![i] = IF r.kind = "report" THEN "returned" ELSE "raised"]
  /\ UNCHANGED <<phase, config, clock, sent, outcome, listed>>

\* ToolLive as it would be with the development-mode test left out of the tool
ToolLiveAlways(i, c) ==
  /\ phase = "serving"
  /\ pc[i] = "idle"
  /\ c.name \in ToolNames
  /\ call' = [call EXCEPT ![i] = c]
  /\ LET u == upstream_call(Registered(c.name), c.arguments)
         q == api_request(u.endpoint, u.method, u.params, u.data) IN
       /\ sent' = [sent EXCEPT ![i] = Append(@, q.request)]
       /\ log' = [log EXCEPT ![i] = <<"make_api_request", "send">>]
       /\ pc' = [pc EXCEPT ![i] = "awaiting"]
       /\ UNCHANGED data
  /\ UNCHANGED <<phase, config, clock, outcome, at, ret, listed>>

\* A tool called outside development mode, up to the await in make_api_request
ToolLive(i, c) ==
  /\ phase = "serving"
  /\ pc[i] = "idle"
  /\ c.name \in ToolNames
  /\ ~DEVELOPMENT_MODE
  /\ call' = [call EXCEPT ![i] = c]
  /\ LET u == upstream_call(Registered(c.name), c.arguments)
         q == api_request(u.endpoint, u.method, u.params, u.data) IN
       IF q.send
       THEN /\ sent' = [sent EXCEPT ![i] = Append(@, q.request)]
            /\ log' = [log EXCEPT ![i] = <<"make_api_request", "send">>]
            /\ pc' = [pc EXCEPT ![i] = "awaiting"]
            /\ UNCHANGED data
       ELSE /\ data' = [data EXCEPT ![i] = q.result]
            /\ log' = [log EXCEPT ![i] = <<"make_api_request">>]
            /\ pc' = [pc EXCEPT ![i] = "fetched"]
            /\ UNCHANGED sent
  /\ UNCHANGED <<phase, config, clock, outcome, at, ret, listed>>

\* Receive as it would be if make_api_request tried a failed request once more
ReceiveRetry(i, o) ==
  /\ pc[i] = "awaiting"
  /\ outcome' = [outcome EXCEPT ![i] = o]
  /\ IF "error" \in Keys(api_result(o)) /\ Len(sent[i]) < 2
     THEN /\ sent' = [sent EXCEPT ![i] = Append(@, @[1])]
          /\ log' = [log EXCEPT ![i] = Append(@, "send")]
          /\ UNCHANGED <<data, pc>>
     ELSE /\ data' = [data EXCEPT ![i] = api_result(o)]
          /\ log' = [log EXCEPT ![i] = Append(@, "receive")]
          /\ pc' = [pc EXCEPT ![i] = "fetched"]
          /\ UNCHANGED sent
  /\ UNCHANGED <<phase, config, clock, call, at, ret, listed>>

\* The awaited request ends with outcome o; make_api_request returns
Receive(i, o) ==
  /\ pc[i] = "awaiting"
  /\ outcome' = [outcome EXCEPT ![i] = o]
  /\ data' = [data EXCEPT ![i] = api_result(o)]
  /\ log' = [log EXCEPT ![i] = Append(@, "receive")]
  /\ pc' = [pc EXCEPT ![i] = "fetched"]
  /\ UNCHANGED <<phase, config, clock, call, sent, at, ret, listed>>

\* Return as it would be if make_api_request kept its result in a module-level
\* variable that every invocation reads
ReturnShared(i) ==
  /\ pc[i] = "fetched"
  /\ log' = [log EXCEPT ![i] = Append(@, "render")]
  /\ at' = [at EXCEPT ![i] = clock]
  /\ LET j == CHOOSE j \in Invocations : pc[j] = "fetched"
         r == Returned(render(Registered(call[i].name), call[i].arguments, data[j], now)) IN
       /\ ret' = [ret EXCEPT ![i] = r]
       /\ pc' = [pc EXCEPT ![i] = IF r.kind = "report" THEN "returned" ELSE "raised"]
  /\ UNCHANGED <<phase, config, clock, call, sent, outcome, data, listed>>

\* The tool goes on from `if "error" in data` to its return
Return(i) ==
  /\ pc[i] = "fetched"
  /\ log' = [log EXCEPT ![i] = Append(@, "render")]
  /\ at' = [at EXCEPT ![i] = clock]
  /\ LET r == Returned(render(Registered(call[i].name), call[i].arguments, data[i], now)) IN
       /\ ret' = [ret EXCEPT ![i] = r]
       /\ pc' = [pc EXCEPT ![i] = IF r.kind = "report" THEN "returned" ELSE "raised"]
  /\ UNCHANGED <<phase, config, clock, call, sent, outcome, data, listed>>

\* make_api_request called on its own, up to the await or to its return
\* without one
MakeApiRequest(i, endpoint, method, body) ==
  /\ phase = "serving"
  /\ pc[i] = "idle"
  /\ call' = [call EXCEPT ![i] =
                [name |-> "make_api_request",
                 arguments |-> [endpoint |-> endpoint, method |-> method, data |-> body]]]
  /\ LET q == api_request(endpoint, method, JNull, body) IN
       IF q.send
       THEN /\ sent' = [sent EXCEPT ![i] = Append(@, q.request)]
            /\ log' = [log EXCEPT ![i] = <<"make_api_request", "send">>]
            /\ pc' = [pc EXCEPT ![i] = "awaiting"]
            /\ UNCHANGED data
       ELSE /\ data' = [data EXCEPT ![i] = q.result]
            /\ log' = [log EXCEPT ![i] = <<"make_api_request">>]
            /\ pc' = [pc EXCEPT ![i] = "answered"]
            /\ UNCHANGED sent
  /\ UNCHANGED <<phase, config, clock, outcome, at, ret, listed>>

\* ------------------------------------------------------------------------
\* The capability listing

Parameter(name, description) ==
  [name |-> name, type |-> "string", description |-> description]

\* get_tools as it would be if the list had not followed the last tool's
\* signature: report_type is missing
get_tools_stale ==
  << [name |-> "analyze_transaction",
      description |-> "Analyze a financial transaction for compliance issues.",
      parameters |-> << Parameter("transaction_id", "The ID of the transaction to analyze") >>],
     [name |-> "verify_customer_kyc",
      description |-> "Verify Know Your Customer (KYC) compliance for a specific customer.",
      parameters |-> << Parameter("customer_id", "The ID of the customer to verify") >>],
     [name |-> "analyze_communication",
      description |-> "Analyze customer communication for compliance issues.",
      parameters |-> << Parameter("communication_id", "The ID of the communication to analyze") >>],
     [name |-> "get_regulatory_updates",
      description |-> "Get the latest regulatory updates and changes relevant to financial compliance.",
      parameters |-> <<>>],
     [name |-> "generate_compliance_report",
      description |-> "Generate a compliance report for a specific entity.",
      parameters |-> << Parameter("entity_id", "The ID of the entity (customer, account, etc.)") >>] >>

\* the hard-coded `tools` list of get_tools
get_tools ==
  << [name |-> "analyze_transaction",
      description |-> "Analyze a financial transaction for compliance issues.",
      parameters |-> << Parameter("transaction_id", "The ID of the transaction to analyze") >>],
     [name |-> "verify_customer_kyc",
      description |-> "Verify Know Your Customer (KYC) compliance for a specific customer.",
      parameters |-> << Parameter("customer_id", "The ID of the customer to verify") >>],
     [name |-> "analyze_communication",
      description |-> "Analyze customer communication for compliance issues.",
      parameters |-> << Parameter("communication_id", "The ID of the communication to analyze") >>],
     [name |-> "get_regulatory_updates",
      description |-> "Get the latest regulatory updates and changes relevant to financial compliance.",
      parameters |-> <<>>],
     [name |-> "generate_compliance_report",
      description |-> "Generate a compliance report for a specific entity.",
      parameters |-> << Parameter("entity_id", "The ID of the entity (customer, account, etc.)"),
                        Parameter("report_type", "Type of report (summary, detailed, risk, audit)") >>] >>

\* GET /api/tools is answered with {"tools": tools}
GetTools ==
  /\ phase = "serving"
  /\ Len(listed) < MaxList
  /\ listed' = Append(listed, get_tools)
  /\ UNCHANGED <<phase, config, clock, pc, call, log, sent, outcome, data, at, ret>>

\* ------------------------------------------------------------------------
\* What callers send and what the upstream answers

Response(status, text, json) ==
  [kind |-> "response", status_code |-> status, text |-> text, json |-> json]

\* response.json() raises: the body is not JSON
InvalidJson == [k |-> "invalid", msg |-> "Expecting value: line 1 column 1 (char 0)"]

RequestError(msg) == [kind |-> "RequestError", msg |-> msg]

OtherException(msg) == [kind |-> "Exception", msg |-> msg]

\* the calls a caller may make of one name
CallsOf(name, ids, types) ==
  CASE name = "analyze_transaction" ->
         {[name |-> name, arguments |-> [transaction_id |-> x]] : x \in ids}
    [] name = "verify_customer_kyc" ->
         {[name |-> name, arguments |-> [customer_id |-> x]] : x \in ids}
    [] name = "analyze_communication" ->
         {[name |-> name, arguments |-> [communication_id |-> x]] : x \in ids}
    [] name = "get_regulatory_updates" ->
         {[name |-> name, arguments |-> <<>>]}
    [] name = "generate_compliance_report" ->
         {[name |-> name, arguments |-> [entity_id |-> x, report_type |-> t]] :
            x \in ids, t \in types}
    [] OTHER ->
         {[name |-> name, arguments |-> [transaction_id |-> x]] : x \in ids}

\* names no tool was registered under
UnknownNames == {"delete_everything", "analyze_transactions"}

Calls(unknown, ids, types) ==
  UNION {CallsOf(name, ids, types) : name \in {Tools[i] : i \in 1..Len(Tools)} \cup unknown}

\* the upstream failures
Failures ==
  { Response(503, "Service unavailable", InvalidJson),
    Response(404, "{\"message\": \"not found\"}", JObj(<< <<"message", JStr("not found")>> >>)),
    Response(500, "", InvalidJson),
    Response(301, "", InvalidJson),
    Response(200, "<html>maintenance</html>", InvalidJson),
    Response(204, "", InvalidJson),
    RequestError("All connection attempts failed"),
    RequestError(""),
    OtherException("Invalid URL") }

\* a payload of every tool with every field present and every list populated
FullPayload(name) ==
  IF name = "verify_customer_kyc"
  THEN JObj(<<
    <<"verification_status", JStr("PENDING")>>,
    <<"verification_date", JStr("2025-03-15")>>,
    <<"identity_verification", JObj(<<
      <<"status", JStr("FAILED")>>,
      <<"method", JStr("Document Verification")>>,
      <<"issues", JArr(<<JStr("Document expired")>>)>> >>)>>,
    <<"aml_screening", JObj(<<
      <<"status", JStr("FLAGGED")>>,
      <<"risk_level", JStr("HIGH")>>,
      <<"matches", JArr(<<
        JObj(<< <<"list_name", JStr("OFAC SDN")>>,
                <<"match_details", JStr("Name match 92%")>> >>) >>)>> >>)>>,
    <<"required_actions", JArr(<<JStr("Request new identity document")>>)>> >>)
  ELSE mock_data(name)

\* the places of each tool's payload a field may be absent from: a path of keys,
\* "*" for every item of a list, and a last "[]" for the list left empty
Paths(name) ==
  CASE name = "analyze_transaction" ->
         { <<"compliance_status">>, <<"risk_score">>, <<"issues">>, <<"regulatory_references">>,
           <<"issues", "*", "category">>, <<"issues", "*", "description">>,
           <<"issues", "*", "recommendation">>,
           <<"regulatory_references", "*", "code">>,
           <<"regulatory_references", "*", "description">>,
           <<"issues", "[]">>, <<"regulatory_references", "[]">> }
    [] name = "verify_customer_kyc" ->
         { <<"verification_status">>, <<"verification_date">>, <<"identity_verification">>,
           <<"aml_screening">>, <<"required_actions">>,
           <<"identity_verification", "status">>, <<"identity_verification", "method">>,
           <<"identity_verification", "issues">>,
           <<"aml_screening", "status">>, <<"aml_screening", "risk_level">>,
           <<"aml_screening", "matches">>,
           <<"aml_screening", "matches", "*", "list_name">>,
           <<"aml_screening", "matches", "*", "match_details">>,
           <<"identity_verification", "issues", "[]">>,
           <<"aml_screening", "matches", "[]">>, <<"required_actions", "[]">> }
    [] name = "analyze_communication" ->
         { <<"communication_type">>, <<"compliance_status">>, <<"sentiment_analysis">>,
           <<"issues">>, <<"recommendations">>,
           <<"sentiment_analysis", "overall">>,
           <<"issues", "*", "category">>, <<"issues", "*", "description">>,
           <<"issues", "*", "severity">>, <<"issues", "*", "context">>,
           <<"issues", "[]">>, <<"recommendations", "[]">> }
    [] name = "get_regulatory_updates" ->
         { <<"updates">>,
           <<"updates", "*", "title">>, <<"updates", "*", "date">>,
           <<"updates", "*", "jurisdiction">>, <<"updates", "*", "category">>,
           <<"updates", "*", "summary">>, <<"updates", "*", "action_items">>,
           <<"updates", "[]">>, <<"updates", "*", "action_items", "[]">> }
    [] name = "generate_compliance_report" ->
         { <<"summary">>, <<"risk_assessment">>, <<"compliance_status">>, <<"recommendations">>,
           <<"risk_assessment", "overall">>, <<"risk_assessment", "factors">>,
           <<"risk_assessment", "factors", "*", "name">>,
           <<"risk_assessment", "factors", "*", "level">>,
           <<"risk_assessment", "factors", "*", "details">>,
           <<"compliance_status", "overall">>, <<"compliance_status", "categories">>,
           <<"compliance_status", "categories", "*", "name">>,
           <<"compliance_status", "categories", "*", "status">>,
           <<"compliance_status", "categories", "*", "details">>,
           <<"risk_assessment", "factors", "[]">>,
           <<"compliance_status", "categories", "[]">>, <<"recommendations", "[]">> }

RECURSIVE DropPath(_, _)
\* x without what path names
DropPath(x, path) ==
  IF Len(path) = 0 THEN x
  ELSE IF path[1] = "[]" THEN (IF x.k = "arr" THEN JArr(<<>>) ELSE x)
  ELSE IF path[1] = "*"
  THEN (IF x.k = "arr"
        THEN JArr([i \in 1..Len(x.v) |-> DropPath(x.v[i], Tail(path))])
        ELSE x)
  ELSE IF x.k # "obj" THEN x
  ELSE IF Len(path) = 1 THEN JObj(SelectSeq(x.v, LAMBDA p : p[1] # path[1]))
  ELSE JObj([i \in 1..Len(x.v) |->
              IF x.v[i][1] = path[1]
              THEN <<x.v[i][1], DropPath(x.v[i][2], Tail(path))>>
              ELSE x.v[i]])

RECURSIVE DropAll(_, _)
DropAll(x, paths) ==
  IF paths = {} THEN x
  ELSE LET p == CHOOSE q \in paths : TRUE IN DropAll(DropPath(x, p), paths \ {p})

RECURSIVE UpTo(_, _)
\* the subsets of S of at most n elements
UpTo(S, n) ==
  IF n = 0 THEN {{}}
  ELSE LET smaller == UpTo(S, n - 1) IN smaller \cup {P \cup {x} : P \in smaller, x \in S}

\* the payloads of a tool with up to MaxDrop fields absent, and the empty one
Payloads(name) ==
  { DropAll(FullPayload(name), P) : P \in UpTo(Paths(name), MaxDrop) }
  \cup { JObj(<<>>) }

\* 2xx bodies that are JSON but no payload of any tool
OddBodies ==
  { JNull, JNum(0), JNum(7), JBool(TRUE), JStr(""), JStr("ok"), JStr("no error"),
    JArr(<<>>), JArr(<<JStr("error")>>), JArr(<<JStr("issues")>>),
    JObj(<< <<"error", JStr("quota exceeded")>> >>),
    JObj(<< <<"error", JStr("partial")>>, <<"compliance_status", JStr("COMPLIANT")>> >>),
    JObj(<< <<"issues", JStr("none")>>, <<"updates", JNum(3)>> >>),
    JObj(<< <<"issues", JNull>>, <<"updates", JNull>>, <<"risk_score", JNull>> >>) }

\* everything the upstream may do with a request of the tool
Outcomes(name) ==
  Failures
  \cup {Response(200, "", p) : p \in Payloads(name) \cup OddBodies}
  \cup {Response(201, "", FullPayload(name))}

\* a few of them
FewOutcomes(name) ==
  { Response(200, "", FullPayload(name)),
    Response(503, "Service unavailable", InvalidJson) }

PayloadsByTool == [name \in {Tools[i] : i \in 1..Len(Tools)} |-> Payloads(name)]

OutcomesByTool == [name \in {Tools[i] : i \in 1..Len(Tools)} |-> Outcomes(name)]

FewOutcomesByTool == [name \in {Tools[i] : i \in 1..Len(Tools)} |-> FewOutcomes(name)]

\* what the upstream may answer to the request invocation i awaits
Answers(i) == IF pc[i] = "awaiting" THEN OutcomesByTool[Registered(call[i].name)] ELSE {}

FewAnswers(i) == IF pc[i] = "awaiting" THEN FewOutcomesByTool[Registered(call[i].name)] ELSE {}

\* ------------------------------------------------------------------------
\* The server, one invocation, with every payload and every failure

StartState ==
  /\ phase = "start"
  /\ API_BASE = ""
  /\ API_KEY = ""
  /\ stdout = <<>>
  /\ listed = <<>>
  /\ clock = 1
  /\ pc = [i \in Invocations |-> "idle"]
  /\ call = [i \in Invocations |-> NoCall]
  /\ log = [i \in Invocations |-> <<>>]
  /\ sent = [i \in Invocations |-> <<>>]
  /\ outcome = [i \in Invocations |-> NoOutcome]
  /\ data = [i \in Invocations |-> NoData]
  /\ at = [i \in Invocations |-> 0]
  /\ ret = [i \in Invocations |-> NoReturn]

Init ==
  /\ StartState
  /\ os_environ \in [DEVELOPMENT_MODE : {<<>>, <<"1">>},
                     COMPLIANCE_API_KEY : {<<"sk-live">>},
                     COMPLIANCE_API_BASE : {<<"http://localhost:9000">>}]
  /\ argv_dev = FALSE

Next ==
  \/ Import
  \/ Main
  \/ Tick
  \/ \E c \in Calls(UnknownNames, {"TX123", "c-42"}, {"summary", "risk audit", "DETAILED"}) :
       UnknownTool(1, c) \/ ToolDev(1, c) \/ ToolLive(1, c)
  \/ \E o \in Answers(1) : Receive(1, o)
  \/ Return(1)

Spec == Init /\ [][Next]_vars

\* ------------------------------------------------------------------------
\* The server with concurrent invocations, a few answers each

InitConcurrent ==
  /\ StartState
  /\ os_environ \in [DEVELOPMENT_MODE : {<<>>, <<"1">>},
                     COMPLIANCE_API_KEY : {<<>>},
                     COMPLIANCE_API_BASE : {<<>>}]
  /\ argv_dev = FALSE

NextConcurrent ==
  \/ Import
  \/ Main
  \/ Tick
  \/ \E i \in Invocations :
       \/ \E c \in Calls({"delete_everything"}, {"TX123"}, {"summary"}) :
            UnknownTool(i, c) \/ ToolDev(i, c) \/ ToolLive(i, c)
       \/ \E o \in FewAnswers(i) : Receive(i, o)
       \/ Return(i)

SpecConcurrent == InitConcurrent /\ [][NextConcurrent]_vars

\* ------------------------------------------------------------------------
\* The process from its start, with every way of configuring it

InitStartup ==
  /\ StartState
  /\ os_environ \in [DEVELOPMENT_MODE : {<<>>, <<"">>, <<"1">>},
                     COMPLIANCE_API_KEY : {<<>>, <<"">>, <<"sk-live">>},
                     COMPLIANCE_API_BASE : {<<>>, <<"http://localhost:9000">>}]
  /\ argv_dev \in BOOLEAN

NextStartup ==
  \/ Import
  \/ Main
  \/ Tick
  \/ GetTools
  \/ \E c \in Calls({"delete_everything"}, {"TX123"}, {"summary"}) :
       UnknownTool(1, c) \/ ToolDev(1, c) \/ ToolLive(1, c)
  \/ \E o \in FewAnswers(1) : Receive(1, o)
  \/ Return(1)

SpecStartup == InitStartup /\ [][NextStartup]_vars

\* ------------------------------------------------------------------------
\* The tools next to make_api_request called on its own with any method

Methods == {"GET", "POST", "PUT", "DELETE", "get", ""}

Bodies == {JNull, JObj(<< <<"entity_id", JStr("c-42")>> >>)}

NextRequest ==
  \/ Import
  \/ Main
  \/ Tick
  \/ \E c \in Calls({"delete_everything"}, {"TX123"}, {"summary"}) :
       UnknownTool(1, c) \/ ToolDev(1, c) \/ ToolLive(1, c)
  \/ \E o \in FewAnswers(1) : Receive(1, o)
  \/ Return(1)
  \/ \E method \in Methods, body \in Bodies : MakeApiRequest(2, "regulatory/updates", method, body)
  \/ \E o \in Failures : pc[2] = "awaiting" /\ Receive(2, o)

SpecRequest == Init /\ [][NextRequest]_vars

\* ------------------------------------------------------------------------
\* Properties

\* the five tools of the specification
FiveTools == {"analyze_transaction", "verify_customer_kyc", "analyze_communication",
              "get_regulatory_updates", "generate_compliance_report"}

\* the development-mode flag is set: DEVELOPMENT_MODE has a non-empty value
FlagSet ==
  /\ os_environ["DEVELOPMENT_MODE"] # <<>>
  /\ os_environ["DEVELOPMENT_MODE"][1] # ""

\* the heading every report of a tool carries
CanonicalHeading(name) ==
  CASE name = "analyze_transaction" -> "## Transaction Compliance Analysis\n"
    [] name = "verify_customer_kyc" -> "## Customer KYC Verification\n"
    [] name = "analyze_communication" -> "## Communication Compliance Analysis\n"
    [] name = "get_regulatory_updates" -> "## Recent Regulatory Updates\n"
    [] name = "generate_compliance_report" -> " Compliance Report\n"

Invoked(i) == pc[i] # "idle"

\* C1: a tool invoked while the development-mode flag is set never enters
\* make_api_request and sends nothing upstream, and it returns a non-empty
\* report that contains the heading of that tool.
C1_DevModeServesMock ==
  \A i \in Invocations :
    (Invoked(i) /\ FlagSet /\ call[i].name \in FiveTools) =>
      /\ sent[i] = <<>>
      /\ \A n \in 1..Len(log[i]) : log[i][n] \notin {"make_api_request", "send", "receive"}
      /\ pc[i] = "returned"
      /\ ret[i].kind = "report"
      /\ Len(Text(ret[i].out)) > 0
      /\ IsSubstring(CanonicalHeading(call[i].name), Text(ret[i].out))

C1_Witness ==
  \E i \in Invocations :
    FlagSet /\ pc[i] = "returned" /\ call[i].name = "get_regulatory_updates"

Done(i) == pc[i] \in {"returned", "raised"}

Live(i) == Invoked(i) /\ ~FlagSet /\ call[i].name \in FiveTools

\* the upstream answered invocation i with a 2xx status and a JSON body
Success2xx(i) ==
  /\ outcome[i].kind = "response"
  /\ outcome[i].status_code \in 200..299
  /\ outcome[i].json.k # "invalid"

\* C2: outside development mode a tool invocation never ends with an
\* exception, whatever the upstream did: it returns a text report.
C2_NeverRaises ==
  \A i \in Invocations :
    Live(i) => /\ pc[i] # "raised"
               /\ ret[i].kind \in {"none", "report"}

\* the words each tool puts after "Error " in its error report
VerbPhrase(name) ==
  CASE name = "analyze_transaction" -> "analyzing transaction"
    [] name = "verify_customer_kyc" -> "verifying customer KYC"
    [] name = "analyze_communication" -> "analyzing communication"
    [] name = "get_regulatory_updates" -> "fetching regulatory updates"
    [] name = "generate_compliance_report" -> "generating compliance report"

\* an error payload: a mapping with the key "error" holding a string
IsErrorPayload(d) ==
  /\ d.k = "obj"
  /\ "error" \in Keys(d)
  /\ Lookup(d, "error").k = "str"

\* C3: for an error payload the report is the single string
\* "Error <verb phrase>: <msg>", with nothing else and without the details;
\* HTTP 503 "Service unavailable" for verify_customer_kyc gives exactly
\* "Error verifying customer KYC: HTTP error: 503".
C3_ErrorReportExact ==
  \A i \in Invocations :
    /\ (Done(i) /\ call[i].name \in FiveTools /\ IsErrorPayload(data[i])) =>
         /\ pc[i] = "returned"
         /\ ret[i].kind = "report"
         /\ ret[i].out =
              << "Error " \o VerbPhrase(call[i].name) \o ": " \o Lookup(data[i], "error").v >>
    /\ (/\ Done(i)
        /\ call[i].name = "verify_customer_kyc"
        /\ outcome[i].kind = "response"
        /\ outcome[i].status_code = 503
        /\ outcome[i].text = "Service unavailable") =>
         /\ pc[i] = "returned"
         /\ Text(ret[i].out) = "Error verifying customer KYC: HTTP error: 503"

C3_Witness ==
  \E i \in Invocations :
    /\ pc[i] = "returned"
    /\ call[i].name = "verify_customer_kyc"
    /\ outcome[i].kind = "response"
    /\ outcome[i].status_code = 503
    /\ outcome[i].text = "Service unavailable"

ErrorDict(msg) == JObj(<< <<"error", JStr(msg)>> >>)

\* C4: make_api_request gives each failed call exactly one error shape: a
\* non-2xx status gives "HTTP error: <status>" with the body as details, a
\* transport failure gives "Request error: <message>" without details, any
\* other failure (a 2xx body that is not JSON) gives "Unexpected error:
\* <message>"; a 2xx JSON body is returned as it is.
C4_FailureShapes ==
  \A i \in Invocations :
    outcome[i].kind # "none" =>
      LET o == outcome[i]
          d == data[i] IN
      /\ (o.kind = "response" /\ o.status_code \notin 200..299) =>
           d = JObj(<< <<"error", JStr("HTTP error: " \o ToString(o.status_code))>>,
                       <<"details", JStr(o.text)>> >>)
      /\ o.kind = "RequestError" => d = ErrorDict("Request error: " \o o.msg)
      /\ o.kind = "Exception" => d = ErrorDict("Unexpected error: " \o o.msg)
      /\ (o.kind = "response" /\ o.status_code \in 200..299 /\ o.json.k = "invalid") =>
           d = ErrorDict("Unexpected error: " \o o.json.msg)
      /\ Success2xx(i) => d = o.json

C4_Witness ==
  \E i \in Invocations :
    /\ pc[i] = "fetched"
    /\ outcome[i].kind = "response"
    /\ outcome[i].status_code = 301

\* C5: rendering is total: a success payload with any fields absent gives a
\* non-empty report and never an exception.
C5_RenderingTotal ==
  \A i \in Invocations :
    (Done(i) /\ Live(i) /\ Success2xx(i) /\ data[i] \in PayloadsByTool[call[i].name]) =>
      /\ pc[i] = "returned"
      /\ Len(Text(ret[i].out)) > 0

\* the list under key in payload d is absent or empty
NoList(d, key) == key \notin Keys(d) \/ Lookup(d, key) = JArr(<<>>)

\* the list under key in payload d has items
SomeList(d, key) ==
  key \in Keys(d) /\ Lookup(d, key).k = "arr" /\ Len(Lookup(d, key).v) > 0

Says(i, words) == pc[i] = "returned" /\ IsSubstring(words, Text(ret[i].out))

\* C6: analyze_transaction and analyze_communication say "No compliance issues
\* detected", and give no "Identified Issues" section, when issues is absent
\* or empty, and give the section and not the fallback when issues has items;
\* get_regulatory_updates says "No recent regulatory updates available."
\* exactly when updates is absent or empty.
C6_EmptyListFallback ==
  \A i \in Invocations :
    (Done(i) /\ Live(i) /\ Success2xx(i) /\ data[i].k = "obj" /\ "error" \notin Keys(data[i])) =>
      /\ call[i].name \in {"analyze_transaction", "analyze_communication"} =>
           /\ NoList(data[i], "issues") =>
                /\ Says(i, "No compliance issues detected")
                /\ ~Says(i, "Identified Issues")
           /\ SomeList(data[i], "issues") =>
                /\ Says(i, "Identified Issues")
                /\ ~Says(i, "No compliance issues detected")
      /\ call[i].name = "get_regulatory_updates" =>
           /\ NoList(data[i], "updates") => Says(i, "No recent regulatory updates available.")
           /\ SomeList(data[i], "updates") =>
                /\ pc[i] = "returned"
                /\ ~Says(i, "No recent regulatory updates available.")

\* C7: a call that names none of the five tools is answered with an error of
\* its own kind, which no call of a registered tool gets; nothing is sent
\* upstream for it, no mock payload is taken and no renderer runs.
C7_UnknownToolRejected ==
  \A i \in Invocations :
    /\ (Invoked(i) /\ call[i].name \notin FiveTools) =>
         /\ pc[i] = "rejected"
         /\ ret[i].kind = "unknown_tool"
         /\ ret[i].out = <<>>
         /\ sent[i] = <<>>
         /\ log[i] = <<>>
         /\ data[i] = NoData
         /\ outcome[i] = NoOutcome
    /\ call[i].name \in FiveTools => ret[i].kind # "unknown_tool"

C7_Witness ==
  \E i \in Invocations : pc[i] = "rejected" /\ call[i].name = "delete_everything"

\* the path of the tool table for the call of invocation i
TablePath(i) ==
  LET a == call[i].arguments IN
  CASE call[i].name = "analyze_transaction" -> "transactions/" \o a.transaction_id \o "/analyze"
    [] call[i].name = "verify_customer_kyc" -> "customers/" \o a.customer_id \o "/kyc"
    [] call[i].name = "analyze_communication" -> "communications/" \o a.communication_id \o "/analyze"
    [] call[i].name = "get_regulatory_updates" -> "regulatory/updates"
    [] call[i].name = "generate_compliance_report" -> "reports/generate"

\* C8: outside development mode the request a tool sends has the method and
\* the path of the tool table, with the caller's identifier unchanged; the
\* GET requests carry no body and the POST of generate_compliance_report
\* carries {entity_id, report_type} as the caller gave them.
C8_RequestPerTable ==
  \A i \in Invocations :
    Live(i) =>
      /\ Len(sent[i]) >= 1
      /\ \A n \in 1..Len(sent[i]) :
           LET q == sent[i][n]
               a == call[i].arguments IN
           /\ q.url = API_BASE \o "/" \o TablePath(i)
           /\ IF call[i].name = "generate_compliance_report"
              THEN /\ q.method = "POST"
                   /\ q.json = << JObj(<< <<"entity_id", JStr(a.entity_id)>>,
                                          <<"report_type", JStr(a.report_type)>> >>) >>
              ELSE /\ q.method = "GET"
                   /\ q.json = <<>>

C8_Witness ==
  \E i \in Invocations :
    /\ pc[i] = "awaiting"
    /\ call[i].name = "generate_compliance_report"
    /\ call[i].arguments.report_type = "risk audit"
    /\ Len(sent[i]) = 1

\* C9: outside development mode an invocation sends one request and no more,
\* also after the request failed, and it renders its report only after that
\* request has ended.
C9_OneRequest ==
  \A i \in Invocations :
    Live(i) =>
      /\ Len(sent[i]) = 1
      /\ pc[i] = "awaiting" => (outcome[i] = NoOutcome /\ ret[i] = NoReturn)
      /\ pc[i] = "fetched" => (outcome[i] # NoOutcome /\ ret[i] = NoReturn)
      /\ Done(i) =>
           /\ outcome[i] # NoOutcome
           /\ log[i] = <<"make_api_request", "send", "receive", "render">>

C9_Witness ==
  \E i \in Invocations :
    /\ pc[i] = "returned"
    /\ outcome[i].kind = "RequestError"
    /\ Len(sent[i]) = 1

\* C10 as stated: two invocations with the same tool name, arguments, mode
\* flag and upstream result return the same report.
C10_ReportOfInputsOnly ==
  \A i, j \in Invocations :
    (Done(i) /\ Done(j) /\ call[i] = call[j] /\ outcome[i] = outcome[j]) => ret[i] = ret[j]

\* what invocation i returns, from its own call, the mode flag, its own
\* upstream result and the time at which it rendered
OwnReport(i) ==
  LET fn == call[i].name
      payload == IF FlagSet THEN mock_data(fn) ELSE api_result(outcome[i]) IN
  Returned(render(fn, call[i].arguments, payload, Instants[at[i]]))

\* every invocation that finished returned the report of its own inputs
C10_OwnInputs ==
  \A i \in Invocations : (Done(i) /\ call[i].name \in FiveTools) => ret[i] = OwnReport(i)

\* an invocation that awaits its upstream holds no other invocation back: another
\* can be called, can get its own answer, and can return the report of a failure
C10_NonBlocking ==
  \A i, j \in Invocations :
    (i # j /\ pc[i] = "awaiting") =>
      /\ pc[j] = "idle" =>
           ENABLED ToolLive(j, [name |-> "get_regulatory_updates", arguments |-> <<>>])
      /\ pc[j] = "awaiting" =>
           ENABLED Receive(j, Response(503, "Service unavailable", InvalidJson))
      /\ (pc[j] = "fetched" /\ "error" \in Keys(data[j])) => ENABLED Return(j)

\* a step of one invocation leaves the others' state alone, and the
\* configuration is not written once the module is imported
C10_StepIsolated ==
  /\ \A i \in Invocations :
       pc'[i] = pc[i] =>
         /\ call'[i] = call[i]
         /\ sent'[i] = sent[i]
         /\ outcome'[i] = outcome[i]
         /\ data'[i] = data[i]
         /\ log'[i] = log[i]
         /\ at'[i] = at[i]
         /\ ret'[i] = ret[i]
  /\ phase # "start" => (API_BASE' = API_BASE /\ API_KEY' = API_KEY)

\* C10: with invocations running concurrently in any interleaving, the report
\* of each is a function of its own tool name, arguments, the mode flag, its
\* own upstream result and the wall-clock time at which it is rendered; no
\* step of one invocation changes state of another, the base URL and token
\* are not written after the import, and an awaiting invocation blocks none.
C10_Isolation ==
  /\ [](C10_OwnInputs /\ C10_NonBlocking)
  /\ [][C10_StepIsolated]_vars

C10_Witness ==
  \E i, j \in Invocations :
    /\ pc[i] = "awaiting"
    /\ pc[j] = "returned"
    /\ outcome[j] # NoOutcome
    /\ call[i] = call[j]

\* how many times the missing-key warning was printed
Warnings ==
  Cardinality({n \in 1..Len(stdout) :
    stdout[n] = "WARNING: API key not found. Set COMPLIANCE_API_KEY environment variable for production use."})

\* C11: once the process has started with an empty token, the missing-key
\* warning has been printed once if development mode was not selected and not
\* at all if it was selected, by DEVELOPMENT_MODE or by --dev.
C11_WarningUnlessDev ==
  (phase = "serving" /\ API_KEY = "") =>
    IF FlagSet \/ argv_dev THEN Warnings = 0 ELSE Warnings = 1

\* the names of a sequence of descriptors or parameters, in order
NamesOf(seq) == [k \in 1..Len(seq) |-> seq[k].name]

\* C12: every answer of the capability listing has the five descriptors in
\* the fixed order, all answers are the same, and the listing agrees with the
\* registered tools: the same names, and for each the parameter names of the
\* tool function's signature in the same order.
C12_ListingAgrees ==
  \A n \in 1..Len(listed) :
    /\ NamesOf(listed[n]) =
         <<"analyze_transaction", "verify_customer_kyc", "analyze_communication",
           "get_regulatory_updates", "generate_compliance_report">>
    /\ \A m \in 1..Len(listed) : listed[m] = listed[n]
    /\ NamesOf(listed[n]) = NamesOf(Registry)
    /\ \A k \in 1..Len(listed[n]) :
         NamesOf(listed[n][k].parameters) = Signature(Registry[k].fn)

C12_Witness == Len(listed) = 2

\* the longest a line up to its timestamp is taken to be
MaxLine == 80

Digits == {"0", "1", "2", "3", "4", "5", "6", "7", "8", "9"}

\* s reads YYYY-MM-DD HH:MM:SS
IsTimestamp(s) ==
  /\ Len(s) = 19
  /\ \A p \in {1, 2, 3, 4, 6, 7, 9, 10, 12, 13, 15, 16, 18, 19} : SubSeq(s, p, p) \in Digits
  /\ SubSeq(s, 5, 5) = "-" /\ SubSeq(s, 8, 8) = "-"
  /\ SubSeq(s, 11, 11) = " "
  /\ SubSeq(s, 14, 14) = ":" /\ SubSeq(s, 17, 17) = ":"

\* text t goes on with words after its first n characters
GoesOn(t, n, words) ==
  n + Len(words) <= Len(t) /\ SubSeq(t, n + 1, n + Len(words)) = words

\* where words first stands in text t, 0 if nowhere
Position(words, t) ==
  LET S == {p \in 1..(Len(t) - Len(words) + 1) : SubSeq(t, p, p + Len(words) - 1) = words} IN
  IF S = {} THEN 0 ELSE CHOOSE p \in S : \A q \in S : p <= q

\* the line of t that starts after its first n characters holds a timestamp
TimestampLine(t, n) ==
  \E p \in (n + 1)..(n + MaxLine) :
    /\ p + 18 <= Len(t)
    /\ IsTimestamp(SubSeq(t, p, p + 18))
    /\ \A q \in (n + 1)..(p - 1) : SubSeq(t, q, q) # "\n"

\* heading and identifier lines a report of invocation i is to begin with
ReportHead(i) ==
  LET a == call[i].arguments IN
  CASE call[i].name = "analyze_transaction" ->
         "## Transaction Compliance Analysis\n\n**Transaction ID**: " \o a.transaction_id \o "\n"
    [] call[i].name = "verify_customer_kyc" ->
         "## Customer KYC Verification\n\n**Customer ID**: " \o a.customer_id \o "\n"
    [] call[i].name = "analyze_communication" ->
         "## Communication Compliance Analysis\n\n**Communication ID**: " \o a.communication_id \o "\n"
    [] call[i].name = "get_regulatory_updates" -> "## Recent Regulatory Updates\n\n"
    [] call[i].name = "generate_compliance_report" ->
         "## " \o capitalize(a.report_type) \o " Compliance Report\n\n**Entity ID**: " \o a.entity_id \o "\n"

\* the sections of each tool's report, in order: source key and first words
Sections(name) ==
  CASE name = "analyze_transaction" ->
         << <<"compliance_status", "**Compliance Status**: ">>,
            <<"risk_score", "**Risk Score**: ">>,
            <<"issues", "### Identified Issues">>,
            <<"regulatory_references", "### Regulatory References">> >>
    [] name = "verify_customer_kyc" ->
         << <<"verification_status", "**Verification Status**: ">>,
            <<"verification_date", "**Last Verified**: ">>,
            <<"identity_verification", "### Identity Verification">>,
            <<"aml_screening", "### AML Screening">>,
            <<"required_actions", "### Required Actions">> >>
    [] name = "analyze_communication" ->
         << <<"communication_type", "**Type**: ">>,
            <<"compliance_status", "**Compliance Status**: ">>,
            <<"sentiment_analysis", "**Sentiment**: ">>,
            <<"issues", "### Identified Issues">>,
            <<"recommendations", "### Recommendations">> >>
    [] name = "get_regulatory_updates" ->
         << <<"updates", "**Jurisdiction**: ">> >>
    [] name = "generate_compliance_report" ->
         << <<"summary", "### Summary">>,
            <<"risk_assessment", "### Risk Assessment">>,
            <<"compliance_status", "### Compliance Status">>,
            <<"recommendations", "### Recommendations">> >>

\* invocation i returned a report for a payload that is no error payload
SuccessReport(i) ==
  /\ pc[i] = "returned"
  /\ call[i].name \in FiveTools
  /\ data[i].k = "obj"
  /\ "error" \notin Keys(data[i])

\* C13: a report for a non-error payload begins with the heading and the
\* identifiers, goes on with a line holding a timestamp YYYY-MM-DD HH:MM:SS,
\* and then has the tool's sections in their order, each exactly when its
\* key is in the payload.
C13_ReportLayout ==
  \A i \in Invocations :
    SuccessReport(i) =>
      LET t == Text(ret[i].out)
          secs == Sections(call[i].name) IN
      /\ GoesOn(t, 0, ReportHead(i))
      /\ TimestampLine(t, Len(ReportHead(i)))
      /\ \A k \in 1..Len(secs) :
           /\ (secs[k][1] \in Keys(data[i])) <=> (Position(secs[k][2], t) > 0)
           /\ Position(secs[k][2], t) > 0 => Position(secs[k][2], t) > Len(ReportHead(i))
           /\ \A m \in 1..(k - 1) :
                (Position(secs[m][2], t) > 0 /\ Position(secs[k][2], t) > 0) =>
                  Position(secs[m][2], t) < Position(secs[k][2], t)

\* C14: a payload with the key "error" comes only from a failed upstream
\* call, and a 2xx JSON object is never rendered as an error report, also
\* when it has an "error" key of its own.
C14_SuccessOrError ==
  \A i \in Invocations :
    (outcome[i] # NoOutcome /\ data[i].k = "obj") =>
      /\ "error" \in Keys(data[i]) => ~Success2xx(i)
      /\ (pc[i] = "returned" /\ Success2xx(i)) => ~GoesOn(Text(ret[i].out), 0, "Error ")

\* payload d has the object key, and that object has no field
MissingIn(d, key, field) ==
  /\ key \in Keys(d)
  /\ Lookup(d, key).k = "obj"
  /\ field \notin Keys(Lookup(d, key))

\* some item of the non-empty list x is an object without field
ItemWithout(x, field) ==
  /\ x.k = "arr"
  /\ \E n \in 1..Len(x.v) : x.v[n].k = "obj" /\ field \notin Keys(x.v[n])

\* the watchlist matches of a KYC payload, an empty list if it has none
Matches(d) ==
  IF "aml_screening" \in Keys(d) /\ Lookup(d, "aml_screening").k = "obj"
     /\ "matches" \in Keys(Lookup(d, "aml_screening"))
  THEN Lookup(Lookup(d, "aml_screening"), "matches")
  ELSE JArr(<<>>)

Updates(d) == IF "updates" \in Keys(d) THEN Lookup(d, "updates") ELSE JArr(<<>>)

\* C15: in every report an optional nested scalar that the payload lacks is
\* rendered as "Unknown": the status and method of the identity verification,
\* the status and risk level of the AML screening, the list name and details
\* of a watchlist match, the overall sentiment, risk and compliance status,
\* and the title, date, jurisdiction, category and summary of an update.
C15_AbsentIsUnknown ==
  \A i \in Invocations :
    (SuccessReport(i) /\ Success2xx(i)) =>
      LET d == data[i]
          t == Text(ret[i].out) IN
      /\ call[i].name = "verify_customer_kyc" =>
           /\ MissingIn(d, "identity_verification", "status") =>
                IsSubstring("### Identity Verification\n\n- **Status**: Unknown\n", t)
           /\ MissingIn(d, "identity_verification", "method") =>
                IsSubstring("- **Method**: Unknown\n", t)
           /\ MissingIn(d, "aml_screening", "status") =>
                IsSubstring("### AML Screening\n\n- **Status**: Unknown\n", t)
           /\ MissingIn(d, "aml_screening", "risk_level") =>
                IsSubstring("- **Risk Level**: Unknown\n", t)
           /\ ItemWithout(Matches(d), "list_name") => IsSubstring("  - Unknown: ", t)
           /\ ItemWithout(Matches(d), "match_details") => IsSubstring(": Unknown\n", t)
      /\ call[i].name = "analyze_communication" =>
           (MissingIn(d, "sentiment_analysis", "overall") =>
              IsSubstring("**Sentiment**: Unknown\n", t))
      /\ call[i].name = "generate_compliance_report" =>
           /\ MissingIn(d, "risk_assessment", "overall") =>
                IsSubstring("**Overall Risk**: Unknown\n", t)
           /\ MissingIn(d, "compliance_status", "overall") =>
                IsSubstring("**Status**: Unknown\n", t)
      /\ call[i].name = "get_regulatory_updates" =>
           /\ ItemWithout(Updates(d), "title") => IsSubstring("### Unknown\n", t)
           /\ ItemWithout(Updates(d), "date") => IsSubstring("**Date**: Unknown\n", t)
           /\ ItemWithout(Updates(d), "jurisdiction") =>
                IsSubstring("**Jurisdiction**: Unknown\n", t)
           /\ ItemWithout(Updates(d), "category") => IsSubstring("**Category**: Unknown\n", t)
           /\ ItemWithout(Updates(d), "summary") => IsSubstring("\n\nUnknown\n\n", t)

\* words is s with the first letter of every word upper-cased
TitleCased(words, s) ==
  /\ StrLower(words) = StrLower(s)
  /\ \A p \in 1..Len(words) :
       (p = 1 \/ SubSeq(words, p - 1, p - 1) = " ") =>
         ~IsSubstring(SubSeq(words, p, p), "abcdefghijklmnopqrstuvwxyz")

\* the lines of a report after its "Recommendations" heading
AfterRecommendations(out) ==
  LET k == CHOOSE n \in 1..Len(out) : out[n] = "\n### Recommendations\n\n" IN
  SubSeq(out, k + 1, Len(out))

\* C16: the heading of a compliance report is "## <report_type, title-cased>
\* Compliance Report" for any report_type, and in development mode a report of
\* type "summary" is headed "## Summary Compliance Report" and has exactly
\* three recommendation bullets.
C16_TitleCasedHeading ==
  \A i \in Invocations :
    (SuccessReport(i) /\ call[i].name = "generate_compliance_report") =>
      LET t == Text(ret[i].out)
          e == Position(" Compliance Report\n", t) IN
      /\ GoesOn(t, 0, "## ")
      /\ e > 3
      /\ TitleCased(SubSeq(t, 4, e - 1), call[i].arguments.report_type)
      /\ (FlagSet /\ call[i].arguments.report_type = "summary") =>
           /\ GoesOn(t, 0, "## Summary Compliance Report\n")
           /\ \E n \in 1..Len(ret[i].out) : ret[i].out[n] = "\n### Recommendations\n\n"
           /\ Len(AfterRecommendations(ret[i].out)) = 3
           /\ \A n \in 1..3 : GoesOn(AfterRecommendations(ret[i].out)[n], 0, "- ")

\* C17: make_api_request called with a method that is neither GET nor POST
\* sends nothing and returns {"error": "Unsupported method: <method>"}, and no
\* invocation of a tool gets there: a tool outside development mode always
\* sends its one GET or POST.
C17_UnsupportedMethod ==
  \A i \in Invocations :
    /\ (call[i].name = "make_api_request" /\ call[i].arguments.method \notin {"GET", "POST"}) =>
         /\ sent[i] = <<>>
         /\ outcome[i] = NoOutcome
         /\ data[i] = ErrorDict("Unsupported method: " \o call[i].arguments.method)
    /\ (call[i].name = "make_api_request" /\ call[i].arguments.method \in {"GET", "POST"}) =>
         /\ Len(sent[i]) = 1
         /\ sent[i][1].method = call[i].arguments.method
    /\ Live(i) =>
         /\ Len(sent[i]) = 1
         /\ sent[i][1].method \in {"GET", "POST"}
         /\ log[i] # <<"make_api_request">>
         /\ pc[i] # "awaiting" =>
              (outcome[i] # NoOutcome /\ data[i] = api_result(outcome[i]))

C17_Witness ==
  \E i \in Invocations :
    /\ call[i].name = "make_api_request"
    /\ call[i].arguments.method = "DELETE"
    /\ pc[i] = "answered"

=============================================================================
